---- MODULE Spec2Model ----
(***************************************************************************)
(* Ride-dispatch discrete-event simulation (Assignment 1): Location,       *)
(* Driver, Rider, Dispatcher, the five Event kinds and Simulation.run.     *)
(* Drivers and riders are objects shared by reference; they are modelled   *)
(* as indices into the records `drivers` and `riders`.                     *)
(* Driver's methods, and of Assignment 2 the extensions of MNPuzzle and of  *)
(* GridPegSolitairePuzzle and the two puzzle searches, are called outside  *)
(* a run, through the variable `call`.                                     *)
(***************************************************************************)
EXTENDS Integers, Sequences, FiniteSets, Bags, TLC

\* ---------------------------------------------------------------- bounds
\* Largest patience of a rider in the event file.
MaxPatience == 1

\* Largest row of a grid position handed to Driver's methods; the columns
\* go one further, which puts positions at distance 5 on the grid.
MaxCoord == 2

\* Largest speed of a driver handed to Driver's methods.
MaxSpeed == 3

\* Most rows and most columns of a puzzle grid.
MaxRows == 3
MaxColumns == 3

\* Most cells of a peg solitaire grid.
MaxCells == 9

\* The most Rider objects an event file makes create_event_list build.
Riders == 1..4

\* What the lines of the event file are drawn from.
Locations == {<<0, 0>>, <<1, 1>>}
Timestamps == {0, 1}
Patiences == 0..MaxPatience

\* Python's None, for Driver.destination (and a location overwritten by it).
None == <<>>
\* "no driver" / "no rider" (None where an object reference is expected).
NoDriver == 0
NoRider == 0

\* ------------------------------------------------------------- rider.py
WAITING == "waiting"
CANCELLED == "cancelled"
SATISFIED == "satisfied"

\* ----------------------------------------------------------- monitor tags
RIDER == "rider"
DRIVER == "driver"
REQUEST == "request"
CANCEL == "cancel"
PICKUP == "pickup"
DROPOFF == "dropoff"

\* ----------------------------------------------------------- location.py
Abs(n) == IF n < 0 THEN -n ELSE n

\* manhattan_distance that counts rows only.
manhattan_distance_rows(origin, destination) ==
    Abs(origin[1] - destination[1])

manhattan_distance(origin, destination) ==
    Abs(origin[1] - destination[1]) + Abs(origin[2] - destination[2])

\* ------------------------------------------------------------- driver.py
\* round that resolves exact halves upwards.
Round_half_up(n, d) ==
    LET q == n \div d
        r == n % d
    IN IF 2 * r < d THEN q ELSE q + 1

\* Python 3 round(n / d) for integers n >= 0, d >= 1: nearest integer,
\* exact halves to the even neighbour.
Round(n, d) ==
    LET q == n \div d
        r == n % d
    IN IF 2 * r < d THEN q
       ELSE IF 2 * r > d THEN q + 1
       ELSE IF q % 2 = 0 THEN q ELSE q + 1

\* get_travel_time reads self.location.row: AttributeError when the
\* location has been overwritten by None.
TravelRaises(d) == d.location = None

get_travel_time(d, destination) ==
    Round(manhattan_distance(d.location, destination), d.speed)

Driver(identifier, location, speed) ==
    [id |-> identifier, location |-> location, speed |-> speed,
     is_idle |-> TRUE, destination |-> None]

DriverEq(a, b) ==
    /\ a.id = b.id
    /\ a.location = b.location
    /\ a.destination = b.destination
    /\ a.speed = b.speed

\* start_drive that puts the driver at the location at once.
start_drive_arrives(d, location) ==
    [d EXCEPT !.is_idle = FALSE, !.destination = location,
              !.location = location]

\* The driver after start_drive(location); the returned travel time is
\* get_travel_time(d, location), read before the destination is assigned.
start_drive(d, location) ==
    [d EXCEPT !.is_idle = FALSE, !.destination = location]

\* start_drive up to the point where get_travel_time raises.
start_drive_raised(d) == [d EXCEPT !.is_idle = FALSE]

\* end_drive without `self.is_idle = True`.
end_drive_stays_busy(d) ==
    [d EXCEPT !.location = d.destination, !.destination = None]

end_drive(d) ==
    [d EXCEPT !.location = d.destination, !.destination = None,
              !.is_idle = TRUE]

\* The driver after start_ride(rider); it returns
\* get_travel_time(d, rider.destination).
start_ride(d, rider) ==
    [d EXCEPT !.destination = rider.destination, !.is_idle = FALSE]

\* end_ride without `self.is_idle = True`.
end_ride_stays_busy(d) ==
    [d EXCEPT !.location = d.destination, !.destination = None]

end_ride(d) ==
    [d EXCEPT !.location = d.destination, !.destination = None,
              !.is_idle = TRUE]

Rider(id, origin, destination, patience) ==
    [id |-> id, origin |-> origin, destination |-> destination,
     patience |-> patience, status |-> WAITING]


\* --------------------------------------------------------------- state
VARIABLES
    drivers,          \* Driver objects: index -> fields
    riders,           \* Rider objects: index -> fields
    waiting_list,     \* Dispatcher.waiting_list (list of riders)
    driver_registry,  \* Dispatcher.driver_registry (list of drivers)
    events,           \* Simulation._events: the pending events (a bag)
    pc,               \* position in Simulation.run
    temp_event,       \* run's local: the event removed last
    event_list,       \* run's local: what temp_event.do returned
    notified,         \* the monitor.notify calls of the last do
    constructed,      \* history: per kind and rider, the events constructed
    call              \* a call made on the library outside a run: the
                      \* function, its arguments, its locals and its result

simulation_vars == <<drivers, riders, waiting_list, driver_registry, events, pc, temp_event, event_list, notified, constructed>>

vars == <<drivers, riders, waiting_list, driver_registry, events, pc, temp_event, event_list, notified, constructed, call>>

\* No call outside the run.
NoCall == [fn |-> "none"]

\* -------------------------------------------------------------- event.py
RiderRequest(timestamp, rider) ==
    [kind |-> "RiderRequest", timestamp |-> timestamp, rider |-> rider,
     driver |-> NoDriver]
DriverRequest(timestamp, driver) ==
    [kind |-> "DriverRequest", timestamp |-> timestamp, rider |-> NoRider,
     driver |-> driver]
Cancellation(timestamp, rider) ==
    [kind |-> "Cancellation", timestamp |-> timestamp, rider |-> rider,
     driver |-> NoDriver]
Pickup(timestamp, rider, driver) ==
    [kind |-> "Pickup", timestamp |-> timestamp, rider |-> rider,
     driver |-> driver]
Dropoff(timestamp, rider, driver) ==
    [kind |-> "Dropoff", timestamp |-> timestamp, rider |-> rider,
     driver |-> driver]
NoEvent ==
    [kind |-> "None", timestamp |-> 0, rider |-> NoRider, driver |-> NoDriver]

\* Event.__lt__ / __le__: events compare by timestamp alone.
EventLt(a, b) == a.timestamp < b.timestamp
\* __le__ with the comparison turned round.
EventLe_reversed(a, b) == a.timestamp >= b.timestamp
EventLe(a, b) == a.timestamp <= b.timestamp

\* ---------------------------------------------------------- dispatcher.py
SeqToSet(s) == {s[i] : i \in 1..Len(s)}

\* The for loop of request_driver with `travel_time <= fastest_time`.
RECURSIVE FastestScan_or_equal(_, _, _, _)
FastestScan_or_equal(origin, i, fastest_driver, fastest_time) ==
    IF i > Len(driver_registry) THEN fastest_driver
    ELSE LET driver == driver_registry[i] IN
         IF drivers[driver].is_idle
         THEN LET travel_time == get_travel_time(drivers[driver], origin)
              IN IF fastest_driver = NoDriver \/ travel_time <= fastest_time
                 THEN FastestScan_or_equal(origin, i + 1, driver, travel_time)
                 ELSE FastestScan_or_equal(origin, i + 1, fastest_driver,
                                           fastest_time)
         ELSE FastestScan_or_equal(origin, i + 1, fastest_driver,
                                   fastest_time)

\* The for loop of request_driver from registry position i on.
RECURSIVE FastestScan(_, _, _, _)
FastestScan(origin, i, fastest_driver, fastest_time) ==
    IF i > Len(driver_registry) THEN fastest_driver
    ELSE LET driver == driver_registry[i] IN
         IF drivers[driver].is_idle
         THEN IF fastest_driver = NoDriver
              THEN FastestScan(origin, i + 1, driver,
                               get_travel_time(drivers[driver], origin))
              ELSE LET travel_time ==
                           get_travel_time(drivers[driver], origin)
                   IN IF travel_time < fastest_time
                      THEN FastestScan(origin, i + 1, driver, travel_time)
                      ELSE FastestScan(origin, i + 1, fastest_driver,
                                       fastest_time)
         ELSE FastestScan(origin, i + 1, fastest_driver, fastest_time)

\* request_driver calls get_travel_time on every idle registered driver.
request_driver_raises ==
    \E i \in 1..Len(driver_registry) :
        /\ drivers[driver_registry[i]].is_idle
        /\ TravelRaises(drivers[driver_registry[i]])

\* request_driver without the append of line 70 (every driver busy).
request_driver_drops_rider(rider) ==
    IF Len(driver_registry) = 0
    THEN [driver |-> NoDriver, waiting_list |-> Append(waiting_list, rider),
          drivers |-> drivers, driver_registry |-> driver_registry]
    ELSE [driver |-> FastestScan(riders[rider].origin, 1, NoDriver, 0),
          waiting_list |-> waiting_list,
          drivers |-> drivers, driver_registry |-> driver_registry]

\* request_driver that marks the driver it returns as taken.
request_driver_books(rider) ==
    IF Len(driver_registry) = 0
    THEN [driver |-> NoDriver, waiting_list |-> Append(waiting_list, rider),
          drivers |-> drivers, driver_registry |-> driver_registry]
    ELSE LET fastest_driver == FastestScan(riders[rider].origin, 1, NoDriver, 0)
         IN IF fastest_driver = NoDriver
            THEN [driver |-> NoDriver,
                  waiting_list |-> Append(waiting_list, rider),
                  drivers |-> drivers, driver_registry |-> driver_registry]
            ELSE [driver |-> fastest_driver, waiting_list |-> waiting_list,
                  drivers |-> [drivers EXCEPT
                                  ![fastest_driver].is_idle = FALSE],
                  driver_registry |-> driver_registry]

\* request_driver that puts the rider at the front of the waiting list.
request_driver_prepends(rider) ==
    IF Len(driver_registry) = 0
    THEN [driver |-> NoDriver, waiting_list |-> <<rider>> \o waiting_list,
          drivers |-> drivers, driver_registry |-> driver_registry]
    ELSE LET fastest_driver == FastestScan(riders[rider].origin, 1, NoDriver, 0)
         IN [driver |-> fastest_driver,
             waiting_list |-> IF fastest_driver = NoDriver
                              THEN <<rider>> \o waiting_list
                              ELSE waiting_list,
             drivers |-> drivers, driver_registry |-> driver_registry]

\* The returned driver (NoDriver for None) and, after the call, the waiting
\* list, the Driver objects and the registry: the method assigns to no
\* driver and to no entry of the registry.
request_driver(rider) ==
    IF Len(driver_registry) = 0
    THEN [driver |-> NoDriver, waiting_list |-> Append(waiting_list, rider),
          drivers |-> drivers, driver_registry |-> driver_registry]
    ELSE LET fastest_driver == FastestScan(riders[rider].origin, 1, NoDriver, 0)
         IN [driver |-> fastest_driver,
             waiting_list |-> IF fastest_driver = NoDriver
                              THEN Append(waiting_list, rider)
                              ELSE waiting_list,
             drivers |-> drivers, driver_registry |-> driver_registry]

\* The membership test left out: every requesting driver counts as new.
InRegistry_never(driver) == FALSE

\* `driver in self.driver_registry`: list membership is identity or __eq__.
InRegistry(driver) ==
    \E i \in 1..Len(driver_registry) :
        \/ driver_registry[i] = driver
        \/ DriverEq(drivers[driver_registry[i]], drivers[driver])

\* request_rider without the registration of lines 82-83.
request_rider_forgets_driver(driver) ==
    IF Len(waiting_list) = 0
    THEN [rider |-> NoRider, driver_registry |-> driver_registry,
          waiting_list |-> waiting_list]
    ELSE [rider |-> Head(waiting_list), driver_registry |-> driver_registry,
          waiting_list |-> Tail(waiting_list)]

\* request_rider with `waiting_list.pop()`: the newest waiting rider.
request_rider_pops_last(driver) ==
    LET registry == IF ~InRegistry(driver)
                    THEN Append(driver_registry, driver)
                    ELSE driver_registry
    IN IF Len(waiting_list) = 0
       THEN [rider |-> NoRider, driver_registry |-> registry,
             waiting_list |-> waiting_list]
       ELSE [rider |-> waiting_list[Len(waiting_list)],
             driver_registry |-> registry,
             waiting_list |-> SubSeq(waiting_list, 1, Len(waiting_list) - 1)]

\* request_rider with `waiting_list[0]`: the rider stays on the list.
request_rider_keeps_head(driver) ==
    LET registry == IF ~InRegistry(driver)
                    THEN Append(driver_registry, driver)
                    ELSE driver_registry
    IN IF Len(waiting_list) = 0
       THEN [rider |-> NoRider, driver_registry |-> registry,
             waiting_list |-> waiting_list]
       ELSE [rider |-> Head(waiting_list), driver_registry |-> registry,
             waiting_list |-> waiting_list]

\* The returned rider (NoRider for None), the registry and the waiting list
\* afterwards.
request_rider(driver) ==
    LET registry == IF ~InRegistry(driver)
                    THEN Append(driver_registry, driver)
                    ELSE driver_registry
    IN IF Len(waiting_list) = 0
       THEN [rider |-> NoRider, driver_registry |-> registry,
             waiting_list |-> waiting_list]
       ELSE [rider |-> Head(waiting_list), driver_registry |-> registry,
             waiting_list |-> Tail(waiting_list)]

\* list.remove: drops the first occurrence.
RECURSIVE ListRemove(_, _)
ListRemove(list, x) ==
    IF list = <<>> THEN <<>>
    ELSE IF Head(list) = x THEN Tail(list)
    ELSE <<Head(list)>> \o ListRemove(Tail(list), x)

\* cancel_ride with `pop(0)` for `remove(rider)`.
cancel_ride_in_pops(list, rider) ==
    IF rider \in SeqToSet(list) THEN Tail(list) ELSE list

\* cancel_ride(rider) of a dispatcher whose waiting list is list: the
\* waiting list afterwards.
cancel_ride_in(list, rider) ==
    IF rider \in SeqToSet(list)
    THEN ListRemove(list, rider)
    ELSE list

\* cancel_ride that leaves the list alone.
cancel_ride_keeps(rider) == waiting_list

\* The waiting list after cancel_ride(rider).
cancel_ride(rider) == cancel_ride_in(waiting_list, rider)

\* Cancellation.do: `if self.rider.status != SATISFIED`.
MayCancel_always(rider) == TRUE
MayCancel(rider) == rider.status # SATISFIED

\* Pickup.do: `if self.rider.status == WAITING`.
RideBegins_unless_satisfied(rider) == rider.status # SATISFIED
RideBegins(rider) == rider.status = WAITING

\* ------------------------------------------------- event.py: the handlers
\* Each X_do(self) is `self.do(dispatcher, monitor)` for an event of kind X:
\* it fixes the next dispatcher/entity state, the returned event_list, the
\* notifications, and pc' = "aborted" when the call raises.

Notify(timestamp, actor, action, identifier, location) ==
    <<timestamp, actor, action, identifier, location>>

RiderRequest_do(self) ==
    LET rider == riders[self.rider] IN
    /\ notified' = <<Notify(self.timestamp, RIDER, REQUEST, rider.id,
                            rider.origin)>>
    /\ UNCHANGED riders
    /\ IF request_driver_raises
       THEN /\ pc' = "aborted"
            /\ event_list' = <<>>
            /\ UNCHANGED <<drivers, driver_registry, waiting_list,
                           constructed>>
       ELSE LET res == request_driver(self.rider)
                driver == res.driver
                cancellation == Cancellation(self.timestamp + rider.patience,
                                             self.rider)
            IN /\ pc' = "loop"
               /\ waiting_list' = res.waiting_list
               /\ driver_registry' = res.driver_registry
               /\ IF driver # NoDriver
                  THEN LET travel_time ==
                               get_travel_time(res.drivers[driver],
                                               rider.origin)
                           pickup == Pickup(self.timestamp + travel_time,
                                            self.rider, driver)
                       IN /\ drivers' = [res.drivers EXCEPT ![driver] =
                                            start_drive(@, rider.origin)]
                          /\ event_list' = <<pickup, cancellation>>
                          /\ constructed' = [constructed EXCEPT
                                 !["Pickup"][self.rider] = @ + 1,
                                 !["Cancellation"][self.rider] = @ + 1]
                  ELSE /\ drivers' = res.drivers
                       /\ event_list' = <<cancellation>>
                       /\ constructed' = [constructed EXCEPT
                                 !["Cancellation"][self.rider] = @ + 1]

DriverRequest_do(self) ==
    LET res == request_rider(self.driver)
        rider == res.rider
    IN /\ notified' = <<Notify(self.timestamp, DRIVER, REQUEST,
                               drivers[self.driver].id,
                               drivers[self.driver].location)>>
       /\ driver_registry' = res.driver_registry
       /\ waiting_list' = res.waiting_list
       /\ UNCHANGED riders
       /\ IF rider = NoRider
          THEN /\ pc' = "loop"
               /\ event_list' = <<>>
               /\ UNCHANGED <<drivers, constructed>>
          ELSE IF TravelRaises(drivers[self.driver])
          THEN /\ pc' = "aborted"
               /\ event_list' = <<>>
               /\ drivers' = [drivers EXCEPT ![self.driver] =
                                 start_drive_raised(@)]
               /\ UNCHANGED constructed
          ELSE LET travel_time == get_travel_time(drivers[self.driver],
                                                  riders[rider].origin)
                   pickup == Pickup(self.timestamp + travel_time, rider,
                                    self.driver)
               IN /\ pc' = "loop"
                  /\ drivers' = [drivers EXCEPT ![self.driver] =
                                    start_drive(@, riders[rider].origin)]
                  /\ event_list' = <<pickup>>
                  /\ constructed' = [constructed EXCEPT
                                        !["Pickup"][rider] = @ + 1]

Cancellation_do(self) ==
    /\ pc' = "loop"
    /\ event_list' = <<>>
    /\ UNCHANGED <<drivers, driver_registry, constructed>>
    /\ IF MayCancel(riders[self.rider])
       THEN /\ waiting_list' = cancel_ride(self.rider)
            /\ riders' = [riders EXCEPT ![self.rider].status = CANCELLED]
            /\ notified' = <<Notify(self.timestamp, RIDER, CANCEL,
                                    riders[self.rider].id,
                                    riders[self.rider].origin)>>
       ELSE /\ notified' = <<>>
            /\ UNCHANGED <<waiting_list, riders>>

\* Pickup.do that leaves the rider it picks up Waiting.
satisfied_left_waiting(rider) == riders

\* self.rider.status = SATISFIED
satisfied(rider) == [riders EXCEPT ![rider].status = SATISFIED]

Pickup_do(self) ==
    LET rider == riders[self.rider]
        arrived == end_drive(drivers[self.driver])
    IN /\ UNCHANGED <<waiting_list, driver_registry>>
       /\ IF RideBegins(rider)
          THEN /\ notified' = <<Notify(self.timestamp, RIDER, PICKUP,
                                       rider.id, rider.origin),
                                Notify(self.timestamp, DRIVER, PICKUP,
                                       arrived.id, arrived.location)>>
               /\ drivers' = [drivers EXCEPT ![self.driver] =
                                 start_ride(arrived, rider)]
               /\ IF TravelRaises(arrived)
                  THEN /\ pc' = "aborted"
                       /\ event_list' = <<>>
                       /\ UNCHANGED <<riders, constructed>>
                  ELSE LET travel_time ==
                               get_travel_time(arrived, rider.destination)
                           dropoff == Dropoff(self.timestamp + travel_time,
                                              self.rider, self.driver)
                       IN /\ pc' = "loop"
                          /\ event_list' = <<dropoff>>
                          /\ riders' = satisfied(self.rider)
                          /\ constructed' = [constructed EXCEPT
                                 !["Dropoff"][self.rider] = @ + 1]
          ELSE /\ pc' = "loop"
               /\ notified' = <<>>
               /\ drivers' = [drivers EXCEPT ![self.driver] = arrived]
               /\ UNCHANGED riders
               /\ IF rider.status = CANCELLED
                  THEN LET request == DriverRequest(self.timestamp,
                                                    self.driver)
                       IN /\ event_list' = <<request>>
                          /\ UNCHANGED constructed
                  ELSE /\ event_list' = <<>>
                       /\ UNCHANGED constructed

Dropoff_do(self) ==
    LET arrived == end_ride(drivers[self.driver])
        request == DriverRequest(self.timestamp, self.driver)
    IN /\ pc' = "loop"
       /\ drivers' = [drivers EXCEPT ![self.driver] = arrived]
       /\ notified' = <<Notify(self.timestamp, DRIVER, DROPOFF, arrived.id,
                               arrived.location)>>
       /\ event_list' = <<request>>
       /\ UNCHANGED <<riders, waiting_list, driver_registry, constructed>>

\* ------------------------------------------- container.py: PriorityQueue
RECURSIVE AddAll(_, _)
AddAll(queue, list) ==
    IF list = <<>> THEN queue
    ELSE AddAll(queue (+) SetToBag({Head(list)}), Tail(list))

is_empty(queue) == BagToSet(queue) = {}

\* The events remove() may return: one of least timestamp; which of several
\* with equal timestamps is not fixed.
Removable(queue) ==
    {e \in BagToSet(queue) : \A f \in BagToSet(queue) : EventLe(e, f)}

\* ----------------------------------------------------------- simulation.py
\* create_event_list: one DriverRequest per driver, one RiderRequest per
\* rider, every entity a fresh object.
\* A DriverRequest line: timestamp, location, speed.
DriverInputs ==
    {[timestamp |-> 0, location |-> <<0, 0>>, speed |-> 2],
     [timestamp |-> 0, location |-> <<1, 1>>, speed |-> 1]}
\* A RiderRequest line: timestamp, origin, destination, patience.
RiderInputs ==
    [timestamp : Timestamps, origin : Locations, destination : {<<1, 1>>},
     patience : Patiences]
\* The lines of riders who ask for a ride within one corner and do not wait.
ImpatientInputs ==
    {r \in RiderInputs : r.origin = r.destination /\ r.patience = 0}

\* No code reads the position of a line in the file and the queue may release
\* equal timestamps in any order, so files that differ by the order of their
\* lines have the same runs: the lines are taken in non-decreasing key order.
LocationKey(l) == 2 * l[1] + l[2]
DriverKey(d) == 4 * LocationKey(d.location) + d.speed
RiderKey(r) ==
    4 * (4 * r.timestamp + LocationKey(r.origin)) + r.patience
SortedDrivers(lines) ==
    \A i, j \in DOMAIN lines :
        i < j => DriverKey(lines[i]) <= DriverKey(lines[j])
SortedRiders(lines) ==
    \A i, j \in DOMAIN lines :
        i < j => RiderKey(lines[i]) <= RiderKey(lines[j])

\* Two files of one driver at (0,0) of speed 1 and one rider from (0,3) to
\* (0,10): the rider requests at 0 with patience 100, or at 5 with
\* patience 20.
ScenarioFiles ==
    {[din |-> <<[timestamp |-> 0, location |-> <<0, 0>>, speed |-> 1]>>,
      rin |-> <<[timestamp |-> 0, origin |-> <<0, 3>>,
                 destination |-> <<0, 10>>, patience |-> 100]>>],
     [din |-> <<[timestamp |-> 0, location |-> <<0, 0>>, speed |-> 1]>>,
      rin |-> <<[timestamp |-> 5, origin |-> <<0, 3>>,
                 destination |-> <<0, 10>>, patience |-> 20]>>]}

\* The event files: two drivers and three riders, or one driver and four
\* impatient riders (the smallest files in which a driver that was booked
\* twice meets a further rider), or one of the two scenarios.
EventFiles ==
    {f \in [din : [1..2 -> DriverInputs], rin : [1..3 -> RiderInputs]] :
        SortedDrivers(f.din) /\ SortedRiders(f.rin)}
    \cup
    {f \in [din : [1..1 -> DriverInputs], rin : [1..4 -> ImpatientInputs]] :
        SortedRiders(f.rin)}
    \cup ScenarioFiles

\* create_event_list: the events of the file, one fresh Driver or Rider
\* object per line.
create_event_list(file) ==
    [i \in 1..(Len(file.din) + Len(file.rin)) |->
        IF i <= Len(file.din)
        THEN DriverRequest(file.din[i].timestamp, i)
        ELSE RiderRequest(file.rin[i - Len(file.din)].timestamp,
                          i - Len(file.din))]

\* Simulation.__init__: an empty queue and dispatcher; no entity exists yet.
SimulationInit ==
    /\ drivers = <<>>
    /\ riders = <<>>
    /\ waiting_list = <<>>
    /\ driver_registry = <<>>
    /\ events = EmptyBag
    /\ pc = "start"
    /\ temp_event = NoEvent
    /\ event_list = <<>>
    /\ notified = <<>>
    /\ constructed = [k \in {"Cancellation", "Pickup", "Dropoff"} |->
                         [r \in Riders |-> 0]]

Init == SimulationInit /\ call = NoCall

\* run(create_event_list(file)): the for loop adding all initial events.
run_add_initial ==
    /\ pc = "start"
    /\ \E file \in EventFiles :
        /\ drivers' = [d \in DOMAIN file.din |->
                          Driver(d, file.din[d].location, file.din[d].speed)]
        /\ riders' = [r \in DOMAIN file.rin |->
                         Rider(r, file.rin[r].origin, file.rin[r].destination,
                               file.rin[r].patience)]
        /\ events' = AddAll(events, create_event_list(file))
    /\ pc' = "loop"
    /\ UNCHANGED <<waiting_list, driver_registry, temp_event, event_list,
                   notified, constructed, call>>

\* run: the rest of one iteration of the while loop around self.do(...):
\* self is removed and the returned events are added (none when do raised).
run_iteration(self) ==
    /\ temp_event' = self
    /\ events' = AddAll(events (-) SetToBag({self}), event_list')
    /\ UNCHANGED call

do_RiderRequest ==
    /\ pc = "loop"
    /\ \E self \in Removable(events) :
          self.kind = "RiderRequest" /\ RiderRequest_do(self)
              /\ run_iteration(self)

do_DriverRequest ==
    /\ pc = "loop"
    /\ \E self \in Removable(events) :
          self.kind = "DriverRequest" /\ DriverRequest_do(self)
              /\ run_iteration(self)

do_Cancellation ==
    /\ pc = "loop"
    /\ \E self \in Removable(events) :
          self.kind = "Cancellation" /\ Cancellation_do(self)
              /\ run_iteration(self)

do_Pickup ==
    /\ pc = "loop"
    /\ \E self \in Removable(events) :
          self.kind = "Pickup" /\ Pickup_do(self) /\ run_iteration(self)

do_Dropoff ==
    /\ pc = "loop"
    /\ \E self \in Removable(events) :
          self.kind = "Dropoff" /\ Dropoff_do(self) /\ run_iteration(self)

\* run: the loop ends on an empty queue and the report is returned.
run_return ==
    /\ pc = "loop"
    /\ is_empty(events)
    /\ pc' = "done"
    /\ UNCHANGED <<drivers, riders, waiting_list, driver_registry, events,
                   temp_event, event_list, notified, constructed, call>>

Next ==
    \/ run_add_initial
    \/ do_RiderRequest
    \/ do_DriverRequest
    \/ do_Cancellation
    \/ do_Pickup
    \/ do_Dropoff
    \/ run_return

Spec == Init /\ [][Next]_vars

\* ===================================================================
\* Properties
\* ===================================================================
TheRiders == DOMAIN riders
TheDrivers == DOMAIN drivers

Pending(kind) == {e \in BagToSet(events) : e.kind = kind}
OnWaitingList(r) == r \in SeqToSet(waiting_list)

\* The RiderRequest of r has been removed from the queue and done.
Requested(r) ==
    pc # "start" /\ \A e \in Pending("RiderRequest") : e.rider # r
\* A Cancellation for r has been constructed, removed and done.
CancellationDone(r) ==
    /\ constructed["Cancellation"][r] > 0
    /\ \A e \in Pending("Cancellation") : e.rider # r
\* The dispatcher has given r a driver: a Pickup for r has been constructed.
Matched(r) == constructed["Pickup"][r] > 0
\* A driver has picked r up: the ride began and its Dropoff was constructed.
PickedUp(r) == constructed["Dropoff"][r] > 0

Emitted(kind) == {i \in DOMAIN event_list : event_list[i].kind = kind}

\* C1: every RiderRequest(t, rider) that has been done returned exactly one
\* Cancellation, for that rider and at t + rider.patience; no other kind of
\* event returned a Cancellation; so every rider whose request has been done
\* has had exactly one Cancellation constructed, and no other rider has any.
C1_OneCancellationPerRequest ==
    /\ temp_event.kind = "RiderRequest" =>
          /\ Cardinality(Emitted("Cancellation")) = 1
          /\ \A i \in Emitted("Cancellation") :
                event_list[i] =
                    Cancellation(temp_event.timestamp
                                     + riders[temp_event.rider].patience,
                                 temp_event.rider)
    /\ temp_event.kind # "RiderRequest" => Emitted("Cancellation") = {}
    /\ \A r \in TheRiders :
          constructed["Cancellation"][r] = IF Requested(r) THEN 1 ELSE 0

\* C2: once the Cancellation of a rider that no driver was ever given to has
\* been done, the rider is Cancelled and is not on the waiting list, in that
\* state and in every later one.
C2_UnmatchedRiderCancelled ==
    \A r \in TheRiders :
        (CancellationDone(r) /\ ~Matched(r)) =>
            riders[r].status = CANCELLED /\ ~OnWaitingList(r)

\* C2 witness: the Cancellation of a never-matched rider, who waited on the
\* list since its request, has just been done.
C2_Witness ==
    /\ temp_event.kind = "Cancellation"
    /\ ~Matched(temp_event.rider)
    /\ riders[temp_event.rider].status = CANCELLED
    /\ notified # <<>>

\* A step of run's loop that does an event of the given kind.
Doing(kind) == pc = "loop" /\ pc' # "done" /\ temp_event'.kind = kind

\* C3: doing a Cancellation whose rider is Satisfied changes no rider, no
\* driver, neither the waiting list nor the registry, returns no event (the
\* queue only loses the Cancellation) and notifies the monitor of nothing.
C3_StaleCancellationNoOp ==
    [][(Doing("Cancellation")
          /\ riders[temp_event'.rider].status = SATISFIED) =>
            /\ UNCHANGED <<riders, drivers, waiting_list, driver_registry>>
            /\ event_list' = <<>>
            /\ events' = events (-) SetToBag({temp_event'})
            /\ notified' = <<>>]_vars

\* C3 witness: a Cancellation has just been done for a Satisfied rider.
C3_Witness ==
    /\ temp_event.kind = "Cancellation"
    /\ riders[temp_event.rider].status = SATISFIED

\* C4 as stated: a rider the dispatcher has matched to a driver is never
\* Cancelled.
C4_MatchedNeverCancelled ==
    \A r \in TheRiders : Matched(r) => riders[r].status # CANCELLED

\* C4 amended: a rider that a driver has picked up stays Satisfied; the
\* Cancellation done after the pickup leaves the status alone.
C4_PickedUpNeverCancelled ==
    \A r \in TheRiders : PickedUp(r) => riders[r].status = SATISFIED

\* C4 witness: the Cancellation of a rider picked up earlier has been done.
C4_Witness ==
    /\ temp_event.kind = "Cancellation"
    /\ PickedUp(temp_event.rider)
    /\ CancellationDone(temp_event.rider)

\* C5: a rider is created Waiting and its status changes only from Waiting,
\* to Cancelled or to Satisfied.
C5_StatusMonotonic ==
    [][\A r \in DOMAIN riders' :
          IF r \in DOMAIN riders
          THEN riders'[r].status # riders[r].status =>
                  /\ riders[r].status = WAITING
                  /\ riders'[r].status \in {CANCELLED, SATISFIED}
          ELSE riders'[r].status = WAITING]_vars

\* C5 witness: a Pickup has been done for a rider that was Cancelled before
\* the driver arrived, and the rider is still Cancelled.
C5_Witness ==
    /\ temp_event.kind = "Pickup"
    /\ riders[temp_event.rider].status = CANCELLED
    /\ CancellationDone(temp_event.rider)

Registered(d) == d \in SeqToSet(driver_registry)
IdleRegistered == {d \in SeqToSet(driver_registry) : drivers[d].is_idle}
\* The place of d in the registry: its order of registration.
RegistryIndex(d) ==
    CHOOSE i \in DOMAIN driver_registry :
        driver_registry[i] = d /\ \A j \in 1..(i - 1) : driver_registry[j] # d

C7_WaitlistedIffNoIdleDriver ==
    (pc = "loop" /\ ~request_driver_raises) =>
        \A r \in TheRiders :
            ~Requested(r) =>
                LET res == request_driver(r)
                    none_idle == Len(driver_registry) = 0
                                    \/ IdleRegistered = {}
                IN /\ res.driver = NoDriver <=> none_idle
                   /\ res.waiting_list = Append(waiting_list, r) <=> none_idle
                   /\ res.driver # NoDriver =>
                         /\ res.waiting_list = waiting_list
                         /\ r \notin SeqToSet(res.waiting_list)

\* C7 witness: a RiderRequest done while drivers are registered but none is
\* idle returned no Pickup and put its rider at the tail, behind another.
C7_Witness ==
    /\ temp_event.kind = "RiderRequest"
    /\ pc = "loop"
    /\ Emitted("Pickup") = {}
    /\ Len(driver_registry) > 0
    /\ Len(waiting_list) >= 2
    /\ waiting_list[Len(waiting_list)] = temp_event.rider

Before(list, a, b) ==
    \E i, j \in DOMAIN list : i < j /\ list[i] = a /\ list[j] = b

\* C8: the waiting list keeps its riders in the order they were put on it (a
\* step keeps the order of the riders that stay and puts a new rider behind
\* them all), and a DriverRequest done while riders wait takes the first of
\* them, the one waiting longest, and schedules a Pickup for that rider and
\* the requesting driver; so of two waiting riders the earlier is handed to a
\* driver first.
C8_WaitingListFIFO ==
    [][/\ \A a, b \in SeqToSet(waiting_list) \cap SeqToSet(waiting_list') :
             Before(waiting_list, a, b) <=> Before(waiting_list', a, b)
       /\ \A a \in SeqToSet(waiting_list) \cap SeqToSet(waiting_list') :
             \A n \in SeqToSet(waiting_list') \ SeqToSet(waiting_list) :
                 Before(waiting_list', a, n)
       /\ (Doing("DriverRequest") /\ waiting_list # <<>>) =>
             /\ waiting_list' = Tail(waiting_list)
             /\ pc' = "loop" =>
                   /\ Len(event_list') = 1
                   /\ event_list'[1].kind = "Pickup"
                   /\ event_list'[1].rider = Head(waiting_list)
                   /\ event_list'[1].driver = temp_event'.driver]_vars

\* C8 witness: a DriverRequest has just been given a rider while a rider
\* that was put on the list later still waits.
C8_Witness ==
    /\ temp_event.kind = "DriverRequest"
    /\ Emitted("Pickup") # {}
    /\ waiting_list # <<>>

\* C9: the registry only grows, by one driver at its end and only when a
\* DriverRequest of a driver that is not in it is done; a DriverRequest of a
\* registered driver leaves it unchanged; no two entries have the same id.
C9_RegistrationIdempotentPermanent ==
    [][/\ driver_registry' # driver_registry =>
             /\ Doing("DriverRequest")
             /\ ~Registered(temp_event'.driver)
             /\ driver_registry' = Append(driver_registry, temp_event'.driver)
       /\ (Doing("DriverRequest") /\ Registered(temp_event'.driver)) =>
             driver_registry' = driver_registry
       /\ \A i, j \in DOMAIN driver_registry' :
             i # j => drivers'[driver_registry'[i]].id
                         # drivers'[driver_registry'[j]].id]_vars

\* C9 witness: a registered driver has requested again after a drive (every
\* file's first requests are at time 0) and the registry holds it once.
C9_Witness ==
    /\ temp_event.kind = "DriverRequest"
    /\ temp_event.timestamp > 0
    /\ Cardinality({i \in DOMAIN driver_registry :
                       driver_registry[i] = temp_event.driver}) = 1

\* C10: no driver has more than one Pickup or Dropoff pending (start_drive
\* reaches only idle drivers, whose last Pickup or Dropoff has been done).
C10_OnePendingArrivalPerDriver ==
    \A d \in TheDrivers :
        Cardinality({e \in Pending("Pickup") \cup Pending("Dropoff") :
                        e.driver = d}) <= 1

\* The run is between two event executions or has returned.
BetweenEvents == pc \in {"loop", "done"}

\* C11: in every state between two event executions (and after the last),
\* every driver has a destination exactly when it is not idle.
C11_DestinationIffNotIdle ==
    BetweenEvents =>
        \A d \in TheDrivers :
            drivers[d].destination # None <=> ~drivers[d].is_idle

\* C11 witness: a Pickup of a cancelled rider has just ended a drive (its
\* driver is idle without destination) while another driver is on its way.
C11_Witness ==
    /\ pc = "loop"
    /\ temp_event.kind = "Pickup"
    /\ Emitted("DriverRequest") # {}
    /\ drivers[temp_event.driver].is_idle
    /\ drivers[temp_event.driver].destination = None
    /\ \E d \in TheDrivers :
          ~drivers[d].is_idle /\ drivers[d].destination # None

\* The step executes a Pickup (which calls end_drive) or a Dropoff (which
\* calls end_ride).
EndsDriveOrRide == Doing("Pickup") \/ Doing("Dropoff")

\* C12: whenever a Pickup calls end_drive or a Dropoff calls end_ride the
\* driver's destination is set, and no driver's location is ever unset.
C12_LocationNeverUnset ==
    [][/\ EndsDriveOrRide => drivers[temp_event'.driver].destination # None
       /\ \A d \in DOMAIN drivers' : drivers'[d].location # None]_vars

\* C13: a Pickup or Dropoff whose driver has no destination aborts the run
\* and leaves the driver as it was.
C13_EndWithoutDestinationAborts ==
    [][(EndsDriveOrRide /\ drivers[temp_event'.driver].destination = None) =>
           /\ pc' = "aborted"
           /\ drivers'[temp_event'.driver] = drivers[temp_event'.driver]]_vars

\* C14: in every state reachable during a run request_driver completes
\* without raising (request_rider and cancel_ride have no raising path for
\* drivers with distinct ids).
C14_DispatcherNeverRaises ==
    pc = "loop" => ~request_driver_raises

\* The Pickups among the events the step's handler returned.
PickupsReturned == {i \in DOMAIN event_list' : event_list'[i].kind = "Pickup"}

\* C15: a RiderRequest(t, rider) step returns a Pickup exactly when
\* request_driver returned a driver d; then it returns one Pickup, for the
\* rider and d at t plus d's travel time from its location to rider.origin,
\* d is no longer idle, has destination rider.origin and its old location,
\* and no other driver changed; when no driver is matched no Pickup is
\* returned and no driver changed.
C15_RiderRequestStartsDrive ==
    [][Doing("RiderRequest") =>
          LET t == temp_event'.timestamp
              r == temp_event'.rider
          IN /\ pc' = "loop" =>
                   (PickupsReturned # {} <=> request_driver(r).driver # NoDriver)
             /\ IF PickupsReturned # {}
                THEN /\ Cardinality(PickupsReturned) = 1
                     /\ LET p == event_list'[CHOOSE i \in PickupsReturned : TRUE]
                            d == p.driver
                        IN /\ d = request_driver(r).driver
                           /\ p.rider = r
                           /\ p.timestamp =
                                 t + get_travel_time(drivers[d], riders[r].origin)
                           /\ ~drivers'[d].is_idle
                           /\ drivers'[d].destination = riders[r].origin
                           /\ drivers'[d].location = drivers[d].location
                           /\ \A o \in TheDrivers \ {d} : drivers'[o] = drivers[o]
                ELSE drivers' = drivers]_vars

\* C15 witness: a RiderRequest has just been matched with a driver that is
\* some way off: its Pickup lies later than the request.
C15_Witness ==
    /\ temp_event.kind = "RiderRequest"
    /\ \E i \in Emitted("Pickup") :
          /\ event_list[i].timestamp > temp_event.timestamp
          /\ event_list[i].rider = temp_event.rider
          /\ ~drivers[event_list[i].driver].is_idle

\* C16: a DriverRequest(t, driver) step leaves the driver registered; if
\* riders wait it removes the first of them, r, leaves the driver not idle
\* with destination r.origin and returns exactly Pickup(t + travel time, r,
\* driver); if none waits it returns no event and leaves the driver idle
\* and unchanged.
C16_DriverRequestServesHead ==
    [][Doing("DriverRequest") =>
          LET t == temp_event'.timestamp
              d == temp_event'.driver
          IN /\ d \in SeqToSet(driver_registry')
             /\ IF waiting_list # <<>>
                THEN LET r == Head(waiting_list)
                     IN /\ waiting_list' = Tail(waiting_list)
                        /\ ~TravelRaises(drivers[d])
                        /\ ~drivers'[d].is_idle
                        /\ drivers'[d].destination = riders[r].origin
                        /\ event_list' =
                              <<Pickup(t + get_travel_time(drivers[d],
                                                           riders[r].origin),
                                       r, d)>>
                ELSE /\ event_list' = <<>>
                     /\ drivers'[d] = drivers[d]
                     /\ drivers'[d].is_idle]_vars

\* The time of the ride of rider r with driver d: from r's origin, where the
\* Pickup takes place, to r's destination.
RideTime(d, r) ==
    Round(manhattan_distance(riders[r].origin, riders[r].destination),
          drivers[d].speed)

\* C17: a Pickup(t, rider, driver) step acts by the rider's status before it:
\* Waiting: the rider becomes Satisfied, the driver is not idle with
\* destination rider.destination and exactly Dropoff(t + ride time, rider,
\* driver) is returned; Cancelled: the driver is idle without destination and
\* exactly DriverRequest(t, driver) is returned; Satisfied: nothing is
\* returned.
C17_PickupByRiderStatus ==
    [][Doing("Pickup") =>
          LET t == temp_event'.timestamp
              r == temp_event'.rider
              d == temp_event'.driver
          IN /\ riders[r].status = WAITING =>
                   /\ riders'[r].status = SATISFIED
                   /\ ~drivers'[d].is_idle
                   /\ drivers'[d].destination = riders[r].destination
                   /\ event_list' = <<Dropoff(t + RideTime(d, r), r, d)>>
             /\ riders[r].status = CANCELLED =>
                   /\ drivers'[d].is_idle
                   /\ drivers'[d].destination = None
                   /\ event_list' = <<DriverRequest(t, d)>>
             /\ riders[r].status = SATISFIED => event_list' = <<>>]_vars

\* C18: after a Dropoff(t, rider, driver) step the driver is idle without
\* destination at rider.destination and exactly DriverRequest(t, driver) has
\* been returned.
C18_DropoffFreesDriver ==
    [][Doing("Dropoff") =>
          LET t == temp_event'.timestamp
              r == temp_event'.rider
              d == temp_event'.driver
          IN /\ drivers'[d].is_idle
             /\ drivers'[d].destination = None
             /\ drivers'[d].location = riders[r].destination
             /\ event_list' = <<DriverRequest(t, d)>>]_vars

\* C19: every event a handler returns has a timestamp no less than that of
\* the event that returned it, and every event executed has a timestamp no
\* less than that of the event executed before it.
C19_NonDecreasingTimestamps ==
    [][\A kind \in {"RiderRequest", "DriverRequest", "Cancellation",
                    "Pickup", "Dropoff"} :
          Doing(kind) =>
              /\ \A i \in DOMAIN event_list' :
                    event_list'[i].timestamp >= temp_event'.timestamp
              /\ temp_event.kind # "None" =>
                    temp_event'.timestamp >= temp_event.timestamp]_vars

\* C19 witness: an event later than the one before it has been executed and
\* has scheduled an event later than itself, while another event is pending.
C19_Witness ==
    /\ temp_event.kind # "None"
    /\ temp_event.timestamp > 0
    /\ \E i \in DOMAIN event_list :
          event_list[i].timestamp > temp_event.timestamp
    /\ \E e \in BagToSet(events) : e.timestamp = temp_event.timestamp

\* The while loop of run goes on as long as it can: a step that is possible
\* is eventually taken.
FairSpec == Spec /\ WF_vars(Next)

\* C20: run terminates: the queue becomes empty and run returns.
C20_RunTerminates == <>(pc = "done")

\* C21: when run has returned every rider (all have requested by then) is
\* Cancelled or Satisfied, nobody is on the waiting list and every registered
\* driver is idle.
C21_SettledAtReturn ==
    pc = "done" =>
        /\ \A r \in TheRiders : riders[r].status \in {CANCELLED, SATISFIED}
        /\ waiting_list = <<>>
        /\ \A d \in SeqToSet(driver_registry) : drivers[d].is_idle

\* C21 witness: run has returned after a ride (ended by a Dropoff) and after
\* a rider gave up on the waiting list.
C21_Witness ==
    /\ pc = "done"
    /\ driver_registry # <<>>
    /\ \E r \in TheRiders : riders[r].status = SATISFIED
    /\ \E r \in TheRiders :
          riders[r].status = CANCELLED /\ constructed["Pickup"][r] = 0

\* The run of the first scenario: the rider from (0,3) to (0,10) with
\* patience 100.
Scenario22 ==
    /\ pc # "start"
    /\ riders = <<[Rider(1, <<0, 3>>, <<0, 10>>, 100)
                      EXCEPT !.status = riders[1].status]>>

\* C22: in the run of the driver at (0,0) of speed 1 and the rider from (0,3)
\* to (0,10) with patience 100 requesting at 0: the RiderRequest done with the
\* driver registered and idle returns Pickup at 3 and Cancellation at 100;
\* the Pickup makes the rider Satisfied with the driver at (0,3) and returns
\* Dropoff at 10; the Dropoff leaves the driver idle at (0,10) and returns
\* DriverRequest at 10, which returns nothing; the Cancellation at 100
\* changes nothing and leaves the queue empty.
C22_MatchedRideTrace ==
    [][Scenario22 =>
          /\ (Doing("RiderRequest") /\ Registered(1) /\ drivers[1].is_idle) =>
                event_list' = <<Pickup(3, 1, 1), Cancellation(100, 1)>>
          /\ Doing("Pickup") =>
                /\ temp_event'.timestamp = 3
                /\ riders'[1].status = SATISFIED
                /\ drivers'[1].location = <<0, 3>>
                /\ event_list' = <<Dropoff(10, 1, 1)>>
          /\ Doing("Dropoff") =>
                /\ temp_event'.timestamp = 10
                /\ drivers'[1].is_idle
                /\ drivers'[1].location = <<0, 10>>
                /\ event_list' = <<DriverRequest(10, 1)>>
          /\ (Doing("DriverRequest") /\ temp_event'.timestamp = 10) =>
                /\ event_list' = <<>>
                /\ drivers' = drivers
          /\ Doing("Cancellation") =>
                /\ temp_event'.timestamp = 100
                /\ riders[1].status = SATISFIED
                /\ UNCHANGED <<riders, drivers, waiting_list, driver_registry>>
                /\ event_list' = <<>>
                /\ notified' = <<>>
                /\ is_empty(events')]_vars

\* C22 witness: that run has returned after the Cancellation at 100, the
\* rider Satisfied and the driver idle at (0,10).
C22_Witness ==
    /\ Scenario22
    /\ pc = "done"
    /\ temp_event = Cancellation(100, 1)
    /\ riders[1].status = SATISFIED
    /\ drivers[1].is_idle
    /\ drivers[1].location = <<0, 10>>

\* The run of the second scenario: the rider from (0,3) to (0,10) with
\* patience 20.
Scenario23 ==
    /\ pc # "start"
    /\ riders = <<[Rider(1, <<0, 3>>, <<0, 10>>, 20)
                      EXCEPT !.status = riders[1].status]>>

\* C23 as stated: in the run of the driver at (0,0) of speed 1 requesting at
\* 0 and the rider from (0,3) to (0,10) with patience 20 requesting at 5, the
\* DriverRequest at 0 returns no Pickup and registers the driver, and the
\* RiderRequest at 5 returns no Pickup and puts the rider on the waiting
\* list.
C23_RiderWaitlisted ==
    [][Scenario23 =>
          /\ (Doing("DriverRequest") /\ temp_event'.timestamp = 0) =>
                /\ event_list' = <<>>
                /\ driver_registry' = <<1>>
          /\ Doing("RiderRequest") =>
                /\ temp_event'.timestamp = 5
                /\ PickupsReturned = {}
                /\ waiting_list' = <<1>>]_vars

\* C23 amended: in that run the DriverRequest at 0 returns no Pickup and
\* registers the driver, which stays idle at (0,0); the RiderRequest at 5
\* finds that driver: it returns Pickup at 8 and Cancellation at 25, the
\* driver is on its way to (0,3) and the waiting list stays empty.
C23_RiderMatchedWithIdleDriver ==
    [][Scenario23 =>
          /\ (Doing("DriverRequest") /\ temp_event'.timestamp = 0) =>
                /\ event_list' = <<>>
                /\ driver_registry' = <<1>>
                /\ drivers' = drivers
                /\ drivers[1].is_idle
          /\ Doing("RiderRequest") =>
                /\ temp_event'.timestamp = 5
                /\ driver_registry = <<1>>
                /\ event_list' = <<Pickup(8, 1, 1), Cancellation(25, 1)>>
                /\ waiting_list' = <<>>
                /\ ~drivers'[1].is_idle
                /\ drivers'[1].destination = <<0, 3>>
                /\ drivers'[1].location = <<0, 0>>]_vars

\* C23 witness: in that run the RiderRequest at 5 has just been done.
C23_Witness ==
    /\ Scenario23
    /\ temp_event = RiderRequest(5, 1)
    /\ driver_registry = <<1>>
    /\ Emitted("Pickup") # {}

\* C24: in every state of a run in which request_driver returns, and for
\* every rider whose request is still to be done: after the call every
\* driver has the idle flag, destination and location it had before, the
\* returned driver included, and the registry has the same entries in the
\* same order.
C24_RequestDriverFrame ==
    (pc = "loop" /\ ~request_driver_raises) =>
        \A r \in TheRiders :
            ~Requested(r) =>
                /\ request_driver(r).drivers = drivers
                /\ request_driver(r).driver_registry = driver_registry

\* C24 witness: a rider's request is pending while two drivers are
\* registered, one idle (the one request_driver returns) and one not.
C24_Witness ==
    /\ pc = "loop"
    /\ ~request_driver_raises
    /\ Len(driver_registry) = 2
    /\ \E d \in SeqToSet(driver_registry) : ~drivers[d].is_idle
    /\ \E r \in TheRiders :
          /\ ~Requested(r)
          /\ request_driver(r).driver # NoDriver
          /\ drivers[request_driver(r).driver].is_idle

\* The list without rider r, the others in their order.
Without(list, r) == SelectSeq(list, LAMBDA x : x # r)

\* C25: in every state in which a Cancellation is executed and for every
\* rider r, cancel_ride(r) gives the waiting list without r and with the
\* other riders in their order (the list itself when r is not on it), and a
\* second call changes nothing more; the Cancellation step, whose only call
\* on the dispatcher it is, leaves the registry and every driver unchanged.
C25_CancelRideRemovesOnce ==
    [][Doing("Cancellation") =>
          /\ \A r \in TheRiders :
                /\ cancel_ride(r) = Without(waiting_list, r)
                /\ ~OnWaitingList(r) => cancel_ride(r) = waiting_list
                /\ cancel_ride_in(cancel_ride(r), r) = cancel_ride(r)
          /\ drivers' = drivers
          /\ driver_registry' = driver_registry
          /\ waiting_list' \in {waiting_list,
                                Without(waiting_list, temp_event'.rider)}]_vars

\* C25 witness: a Cancellation has just taken its rider, who was never given
\* a driver, off the waiting list, on which two riders remain.
C25_Witness ==
    /\ temp_event.kind = "Cancellation"
    /\ riders[temp_event.rider].status = CANCELLED
    /\ constructed["Pickup"][temp_event.rider] = 0
    /\ Len(waiting_list) >= 2

NoDuplicates(list) ==
    \A i, j \in DOMAIN list : i # j => list[i] # list[j]

\* C26: the waiting list never holds a rider twice, and every step either
\* only takes riders off it, the others keeping their order, or is the
\* RiderRequest of a rider and puts that rider behind all the others; so
\* the list is in the order in which the RiderRequests were executed.
C26_WaitingListInRequestOrder ==
    [][/\ NoDuplicates(waiting_list')
       /\ LET kept == SelectSeq(waiting_list,
                                LAMBDA x : x \in SeqToSet(waiting_list'))
          IN \/ waiting_list' = kept
             \/ /\ Doing("RiderRequest")
                /\ waiting_list' = Append(waiting_list, temp_event'.rider)]_vars

\* C26 witness: a RiderRequest has just put its rider behind another on the
\* waiting list, which a third rider has left by cancelling.
C26_Witness ==
    /\ temp_event.kind = "RiderRequest"
    /\ Len(waiting_list) >= 2
    /\ waiting_list[Len(waiting_list)] = temp_event.rider
    /\ \E r \in TheRiders :
          riders[r].status = CANCELLED /\ constructed["Pickup"][r] = 0

\* C32: after every Pickup(t, rider, driver) step the driver is at
\* rider.origin, and a Dropoff the step returns is at t plus the travel
\* time from rider.origin to rider.destination.
C32_PickupArrivesAtRider ==
    [][Doing("Pickup") =>
          LET t == temp_event'.timestamp
              r == temp_event'.rider
              d == temp_event'.driver
          IN /\ drivers'[d].location = riders[r].origin
             /\ \A i \in DOMAIN event_list' :
                   event_list'[i].kind = "Dropoff" =>
                       event_list'[i].timestamp = t + RideTime(d, r)]_vars

\* C33: every rider on the waiting list is Waiting, and a rider for whom a
\* DriverRequest step returns a Pickup is Waiting.
C33_WaitingListHoldsWaitingRiders ==
    [][/\ \A r \in SeqToSet(waiting_list') : riders'[r].status = WAITING
       /\ Doing("DriverRequest") =>
             \A i \in PickupsReturned :
                 riders[event_list'[i].rider].status = WAITING]_vars

\* C33 witness: a DriverRequest has just taken a Waiting rider off a
\* waiting list that held another, after a third rider left it cancelled.
C33_Witness ==
    /\ temp_event.kind = "DriverRequest"
    /\ Len(event_list) = 1
    /\ event_list[1].kind = "Pickup"
    /\ riders[event_list[1].rider].status = WAITING
    /\ waiting_list # <<>>
    /\ \E r \in TheRiders :
          riders[r].status = CANCELLED /\ constructed["Pickup"][r] = 0

\* C34: at most one Pickup is ever created for a rider, and a rider for whom
\* a Pickup has been created (pending or executed) is not on the waiting
\* list.
C34_MatchedAtMostOnce ==
    \A r \in TheRiders :
        /\ constructed["Pickup"][r] <= 1
        /\ Matched(r) => ~OnWaitingList(r)

\* C34 witness: a DriverRequest has just given its driver to the rider at
\* the head of the waiting list, another rider has been matched as well and
\* a further rider still waits.
C34_Witness ==
    /\ temp_event.kind = "DriverRequest"
    /\ Len(event_list) = 1
    /\ event_list[1].kind = "Pickup"
    /\ Cardinality({r \in TheRiders : Matched(r)}) >= 2
    /\ waiting_list # <<>>

\* The Dropoff of rider r is pending.
DropoffPending(r) == \E e \in Pending("Dropoff") : e.rider = r

\* The most events an event can still lead to, itself included: a Dropoff
\* returns a DriverRequest, a Pickup a Dropoff or a DriverRequest, a
\* RiderRequest a Cancellation and at most a Pickup.
Weight(e) ==
    CASE e.kind = "RiderRequest" -> 5
      [] e.kind = "Pickup" -> 3
      [] e.kind = "Dropoff" -> 2
      [] OTHER -> 1

RECURSIVE QueueWeight(_, _)
QueueWeight(queue, S) ==
    IF S = {} THEN 0
    ELSE LET e == CHOOSE x \in S : TRUE
         IN queue[e] * Weight(e) + QueueWeight(queue, S \ {e})

\* A bound on the turns the loop of run can still take: the pending events
\* by weight, and a Pickup for every rider on the waiting list.
TurnsLeft(queue, list) == QueueWeight(queue, BagToSet(queue)) + 3 * Len(list)

Grid == (0 .. MaxCoord) \X (0 .. MaxCoord + 1)
Speeds == 1 .. MaxSpeed

\* Driver(identifier, location, speed): call.self is the object, before
\* and after the last call made on it.
TravelInit ==
    /\ SimulationInit
    /\ \E location \in Grid, speed \in Speeds :
          call = [fn |-> "__init__", before |-> Driver(1, location, speed),
                  arg |-> location, self |-> Driver(1, location, speed),
                  ret |-> None]

\* self.get_travel_time(destination)
call_get_travel_time ==
    /\ call.fn # "none"
    /\ \E destination \in Grid :
          call' = [fn |-> "get_travel_time", before |-> call.self,
                   arg |-> destination, self |-> call.self,
                   ret |-> get_travel_time(call.self, destination)]
    /\ UNCHANGED simulation_vars

\* self.start_drive(location): the travel time is read once is_idle is
\* cleared and before the destination is assigned.
call_start_drive ==
    /\ call.fn # "none"
    /\ \E location \in Grid :
          call' = [fn |-> "start_drive", before |-> call.self,
                   arg |-> location,
                   self |-> start_drive(call.self, location),
                   ret |-> get_travel_time(start_drive_raised(call.self),
                                           location)]
    /\ UNCHANGED simulation_vars

\* self.start_ride(rider): the travel time is read after the destination
\* is assigned, to self.destination.
call_start_ride ==
    /\ call.fn # "none"
    /\ \E destination \in Grid :
          LET rider == Rider(1, call.self.location, destination, 0)
              after == start_ride(call.self, rider)
          IN call' = [fn |-> "start_ride", before |-> call.self,
                      arg |-> rider.destination, self |-> after,
                      ret |-> get_travel_time(after, after.destination)]
    /\ UNCHANGED simulation_vars

\* self.end_drive(), under its precondition.
call_end_drive ==
    /\ call.fn # "none"
    /\ call.self.destination # None
    /\ call' = [fn |-> "end_drive", before |-> call.self,
                arg |-> None, self |-> end_drive(call.self), ret |-> None]
    /\ UNCHANGED simulation_vars

\* self.end_ride(), under its precondition.
call_end_ride ==
    /\ call.fn # "none"
    /\ call.self.destination # None
    /\ call' = [fn |-> "end_ride", before |-> call.self,
                arg |-> None, self |-> end_ride(call.self), ret |-> None]
    /\ UNCHANGED simulation_vars

TravelNext ==
    \/ call_get_travel_time
    \/ call_start_drive
    \/ call_start_ride
    \/ call_end_drive
    \/ call_end_ride

TravelSpec == TravelInit /\ [][TravelNext]_vars

\* The last call returned a travel time.
ReturnedTravelTime ==
    call.fn \in {"get_travel_time", "start_drive", "start_ride"}

\* Twice the distance, in units of 1/speed, between the returned time and
\* the exact quotient (distance from the location at the call) / speed.
TwiceError ==
    LET at == call.before.location
        dist == Abs(at[1] - call.arg[1]) + Abs(at[2] - call.arg[2])
    IN Abs(2 * call.before.speed * call.ret - 2 * dist)

\* C27: get_travel_time, start_drive and start_ride return the integer
\* nearest to (Manhattan distance from the driver's location at the call
\* to the target) / speed, an exact half going to the even neighbour
\* (1/2 -> 0, 3/2 -> 2, 5/2 -> 2).
C27_TravelTimeRoundsHalfToEven ==
    ReturnedTravelTime =>
        /\ call.ret \in Nat
        /\ TwiceError <= call.before.speed
        /\ TwiceError = call.before.speed => call.ret % 2 = 0
        /\ LET dist == manhattan_distance(call.before.location, call.arg)
           IN call.before.speed = 2 =>
                 /\ dist = 1 => call.ret = 0
                 /\ dist = 3 => call.ret = 2
                 /\ dist = 5 => call.ret = 2

\* C27 witness: an idle driver that has ended a drive at <<2, 0>> starts a
\* ride of distance 5 at speed 2 and is told 2.
C27_Witness ==
    /\ call.fn = "start_ride"
    /\ call.before.speed = 2
    /\ call.before.location = <<2, 0>>
    /\ call.arg = <<0, 3>>
    /\ call.ret = 2
    /\ call.before.is_idle

\* ===================================================================
\* MNPuzzle (Assignment 2, mn_puzzle.py)
\* ===================================================================
\* A grid is a tuple of rows, a row a tuple of symbols; Python's indices
\* count from 0, the tuples' from 1.
MNPuzzle(from_grid, to_grid) ==
    [n |-> Len(from_grid), m |-> Len(from_grid[1]),
     from_grid |-> from_grid, to_grid |-> to_grid]

RECURSIVE grid_as_list(_)
grid_as_list(grid) ==
    IF grid = <<>> THEN <<>> ELSE grid[1] \o grid_as_list(Tail(grid))

\* list_as_grid: rows of self.m items each, with self's to_grid.
list_as_grid(self, grid_list) ==
    MNPuzzle([r \in 1 .. (Len(grid_list) \div self.m) |->
                 [c \in 1 .. self.m |-> grid_list[(r - 1) * self.m + c]]],
             self.to_grid)

\* grid_list.index('*')
index(self) ==
    LET grid_list == grid_as_list(self.from_grid)
    IN CHOOSE k \in 0 .. Len(grid_list) - 1 :
          /\ grid_list[k + 1] = "*"
          /\ \A j \in 0 .. k - 1 : grid_list[j + 1] # "*"

row_index(self) == index(self) \div self.n
column_index(self) == index(self) % self.m

\* list[k] raises IndexError off both ends; a negative k counts from the
\* end of the list.
IndexRaises(list, k) == k >= Len(list) \/ k < 0 - Len(list)
ListIndex(list, k) == IF k < 0 THEN k + Len(list) ELSE k

\* list_copy[a], list_copy[b] = list_copy[b], list_copy[a]
Swapped(list, a, b) ==
    LET i == ListIndex(list, a) + 1
        j == ListIndex(list, b) + 1
    IN [list EXCEPT ![i] = list[j], ![j] = list[i]]

\* One turn of the for loop, first if: the space to the left (i = -1) or
\* to the right (i = 1).
Sideways(self, i) ==
    LET grid_list == grid_as_list(self.from_grid)
    IN IF 0 <= column_index(self) + i /\ column_index(self) + i < self.m
       THEN <<list_as_grid(self,
                  Swapped(grid_list, index(self), index(self) + i))>>
       ELSE <<>>

\* One turn of the for loop, second if: the space above or below.
Vertical(self, i) ==
    LET grid_list == grid_as_list(self.from_grid)
    IN IF 0 <= row_index(self) + i /\ row_index(self) + i < self.n
       THEN <<list_as_grid(self,
                  Swapped(grid_list, index(self),
                          index(self) + i * self.m))>>
       ELSE <<>>

\* extensions raises IndexError in one of its swaps.
extensions_raises(self) ==
    LET grid_list == grid_as_list(self.from_grid)
    IN \E i \in {-1, 1} :
          \/ /\ 0 <= column_index(self) + i
             /\ column_index(self) + i < self.m
             /\ IndexRaises(grid_list, index(self) + i)
          \/ /\ 0 <= row_index(self) + i
             /\ row_index(self) + i < self.n
             /\ IndexRaises(grid_list, index(self) + i * self.m)

\* The list extensions returns, for i in range(-1, 2, 2).
extensions(self) ==
    Sideways(self, -1) \o Vertical(self, -1)
        \o Sideways(self, 1) \o Vertical(self, 1)

\* The symbols other than '*'.
Symbols ==
    <<"1", "2", "3", "4", "5", "6", "7", "8", "9", "a", "b", "c", "d",
      "e", "f", "g", "h", "i", "j", "k", "l", "m", "n", "o">>

\* The n-by-m grid with '*' at flat position star (from 0) and the other
\* cells numbered in reading order, or backwards.
GridOf(n, m, star, backwards) ==
    [r \in 1 .. n |->
        [c \in 1 .. m |->
            LET k == (r - 1) * m + c - 1
                rank == IF k < star THEN k + 1 ELSE k
            IN IF k = star THEN "*"
               ELSE IF backwards THEN Symbols[n * m - rank]
               ELSE Symbols[rank]]]

\* MNPuzzle(from_grid, to_grid) on grids of n rows and m columns holding
\* one '*'.
MNInit ==
    /\ SimulationInit
    /\ \E n \in 1 .. MaxRows, m \in 1 .. MaxColumns :
          \E star \in 0 .. n * m - 1, backwards \in BOOLEAN,
             solved \in BOOLEAN :
             LET from_grid == GridOf(n, m, star, backwards)
                 to_grid == IF solved THEN from_grid
                            ELSE GridOf(n, m, n * m - 1, FALSE)
             IN call = [fn |-> "__init__",
                        self |-> MNPuzzle(from_grid, to_grid),
                        raised |-> FALSE, ret |-> None]

\* self.extensions() returns.
call_extensions ==
    /\ call.fn = "__init__"
    /\ ~extensions_raises(call.self)
    /\ call' = [call EXCEPT !.fn = "extensions",
                            !.ret = extensions(call.self)]
    /\ UNCHANGED simulation_vars

\* self.extensions() raises IndexError.
call_extensions_raises ==
    /\ call.fn = "__init__"
    /\ extensions_raises(call.self)
    /\ call' = [call EXCEPT !.fn = "extensions", !.raised = TRUE]
    /\ UNCHANGED simulation_vars

\* self.is_solved()
call_is_solved ==
    /\ call.fn = "__init__"
    /\ call' = [call EXCEPT !.fn = "is_solved",
                            !.ret = (call.self.from_grid = call.self.to_grid)]
    /\ UNCHANGED simulation_vars

MNNext ==
    \/ call_extensions
    \/ call_extensions_raises
    \/ call_is_solved

MNSpec == MNInit /\ [][MNNext]_vars

\* Row and column (from 1) of '*' in the grid.
StarAt(grid) ==
    CHOOSE p \in (DOMAIN grid) \X (DOMAIN grid[1]) : grid[p[1]][p[2]] = "*"

\* The grid with the symbols at p and q exchanged.
Exchange(grid, p, q) ==
    [grid EXCEPT ![p[1]][p[2]] = grid[q[1]][q[2]],
                 ![q[1]][q[2]] = grid[p[1]][p[2]]]

\* The cells of the grid next to p: left, right, above, below.
Neighbours(grid, p) ==
    {q \in (DOMAIN grid) \X (DOMAIN grid[1]) :
        Abs(q[1] - p[1]) + Abs(q[2] - p[2]) = 1}

\* The grids obtained by swapping '*' with a neighbour inside the grid.
NeighbourSwaps(grid) ==
    {Exchange(grid, StarAt(grid), q) : q \in Neighbours(grid, StarAt(grid))}

\* C30: extensions returns exactly the puzzles that swap '*' with a
\* neighbour inside the grid, one per neighbour, each with self's to_grid,
\* on every n-by-m grid, n = m or not.
C30_ExtensionsAreNeighbourSwaps ==
    call.fn = "extensions" =>
        /\ ~call.raised
        /\ {e.from_grid : e \in SeqToSet(call.ret)}
              = NeighbourSwaps(call.self.from_grid)
        /\ Len(call.ret)
              = Cardinality(Neighbours(call.self.from_grid,
                                       StarAt(call.self.from_grid)))
        /\ \A e \in SeqToSet(call.ret) : e.to_grid = call.self.to_grid

\* ===================================================================
\* Puzzle search (Assignment 2, puzzle_tools.py)
\* ===================================================================
\* The configurations of the puzzle being searched; the search is handed
\* the first.
Configs == 1 .. 3
root_config == 1

\* None where a PuzzleNode is expected.
NoNode == 0

\* str(puzzle): the subclasses print the fields in which the
\* configurations of one search differ.
ConfigStr == <<"From : c1", "From : c2", "From : c3">>
str(puzzle) == ConfigStr[puzzle]

\* A Puzzle subclass as the search sees it: what extensions() lists for
\* each configuration, and where is_solved() and fail_fast() hold.
ExtensionLists ==
    {<<>>} \cup {<<a>> : a \in Configs}
           \cup {list \in Configs \X Configs : list[1] # list[2]}

Puzzles ==
    [extensions : [Configs -> ExtensionLists],
     is_solved : SUBSET Configs,
     fail_fast : SUBSET Configs]

\* PuzzleNode.__init__; a node is named by its place in call.nodes.
PuzzleNode(puzzle, children, parent) ==
    [puzzle |-> puzzle, children |-> children, parent |-> parent]

\* get_path that does not link the nodes of the path.
get_path_unlinked(nodes, node) ==
    [nodes |-> nodes,
     ret |-> CHOOSE r \in DOMAIN nodes : nodes[r].parent = NoNode]

\* get_path(node): the nodes after the appends, and the node returned.
RECURSIVE get_path(_, _)
get_path(nodes, node) ==
    LET parent == nodes[node].parent
    IN IF parent = NoNode
       THEN [nodes |-> nodes, ret |-> node]
       ELSE get_path([nodes EXCEPT ![parent].children = Append(@, node)],
                     parent)

\* The extensions of the puzzle whose str is not in visited.
unvisited(P, visited, puzzle) ==
    SelectSeq(P.extensions[puzzle], LAMBDA extension :
                                        str(extension) \notin visited)

\* nodes with a new PuzzleNode(extension, [], node) for each listed
\* extension.
RECURSIVE with_nodes(_, _, _)
with_nodes(nodes, exts, node) ==
    IF exts = <<>> THEN nodes
    ELSE with_nodes(Append(nodes, PuzzleNode(Head(exts), <<>>, node)),
                    Tail(exts), node)

\* depth_first_solve that extends fail_fast puzzles too.
may_extend_fail_fast(P, puzzle) == TRUE

\* elif not node.puzzle.fail_fast()
may_extend(P, puzzle) == puzzle \notin P.fail_fast

\* The locals of a search before its while loop.
search(fn, P) ==
    [fn |-> fn, puzzle |-> P,
     nodes |-> <<PuzzleNode(root_config, <<>>, NoNode)>>,
     deque |-> <<1>>, visited |-> {}, pc |-> "loop", ret |-> NoNode]

\* One turn of the while loop on the node taken off the deque, rest being
\* the deque without it; extend tells whether an unsolved puzzle is
\* extended.
turn(node, rest, extend) ==
    LET puzzle == call.nodes[node].puzzle
        P == call.puzzle
        visited == call.visited \cup {str(puzzle)}
        exts == unvisited(P, visited, puzzle)
        path == get_path(call.nodes, node)
    IN IF str(puzzle) \in call.visited
       THEN [call EXCEPT !.deque = rest]
       ELSE IF puzzle \in P.is_solved
       THEN [call EXCEPT !.deque = rest, !.visited = visited,
                         !.nodes = path.nodes, !.ret = path.ret,
                         !.pc = "returned"]
       ELSE IF extend
       THEN [call EXCEPT !.visited = visited,
                         !.nodes = with_nodes(call.nodes, exts, node),
                         !.deque = rest \o
                             [k \in 1 .. Len(exts) |-> Len(call.nodes) + k]]
       ELSE [call EXCEPT !.deque = rest, !.visited = visited]

Searching(fn) == call.fn = fn /\ call.pc = "loop"

\* ---- breadth_first_solve
\* deck.pop(): the newest node instead of the oldest.
popleft_pops_right(deque) ==
    [node |-> deque[Len(deque)], rest |-> SubSeq(deque, 1, Len(deque) - 1)]

\* deck.popleft(): the node taken and the deck left.
popleft(deque) == [node |-> Head(deque), rest |-> Tail(deque)]

BfsInit ==
    /\ SimulationInit
    /\ \E P \in Puzzles : call = search("breadth_first_solve", P)

\* node = deck.popleft(), its puzzle seen before.
bfs_seen ==
    /\ Searching("breadth_first_solve") /\ call.deque # <<>>
    /\ str(call.nodes[popleft(call.deque).node].puzzle) \in call.visited
    /\ call' = turn(popleft(call.deque).node, popleft(call.deque).rest, TRUE)
    /\ UNCHANGED simulation_vars

\* node = deck.popleft(), its puzzle new and solved: return get_path(node).
bfs_solved ==
    /\ Searching("breadth_first_solve") /\ call.deque # <<>>
    /\ str(call.nodes[popleft(call.deque).node].puzzle) \notin call.visited
    /\ call.nodes[popleft(call.deque).node].puzzle \in call.puzzle.is_solved
    /\ call' = turn(popleft(call.deque).node, popleft(call.deque).rest, TRUE)
    /\ UNCHANGED simulation_vars

\* node = deck.popleft(), its puzzle new and unsolved: deck.extend(...).
bfs_extend ==
    /\ Searching("breadth_first_solve") /\ call.deque # <<>>
    /\ str(call.nodes[popleft(call.deque).node].puzzle) \notin call.visited
    /\ call.nodes[popleft(call.deque).node].puzzle \notin call.puzzle.is_solved
    /\ call' = turn(popleft(call.deque).node, popleft(call.deque).rest, TRUE)
    /\ UNCHANGED simulation_vars

\* The deck is empty: return None.
bfs_none ==
    /\ Searching("breadth_first_solve") /\ call.deque = <<>>
    /\ call' = [call EXCEPT !.pc = "returned", !.ret = NoNode]
    /\ UNCHANGED simulation_vars

BfsNext == bfs_seen \/ bfs_solved \/ bfs_extend \/ bfs_none

BfsSpec == BfsInit /\ [][BfsNext]_vars

\* ---- depth_first_solve
Last(list) == list[Len(list)]
Front(list) == SubSeq(list, 1, Len(list) - 1)

DfsInit ==
    /\ SimulationInit
    /\ \E P \in Puzzles : call = search("depth_first_solve", P)

dfs_turn ==
    turn(Last(call.deque), Front(call.deque),
         may_extend(call.puzzle, call.nodes[Last(call.deque)].puzzle))

\* node = stack.pop(), its puzzle seen before.
dfs_seen ==
    /\ Searching("depth_first_solve") /\ call.deque # <<>>
    /\ str(call.nodes[Last(call.deque)].puzzle) \in call.visited
    /\ call' = dfs_turn
    /\ UNCHANGED simulation_vars

\* node = stack.pop(), its puzzle new and solved: return get_path(node).
dfs_solved ==
    /\ Searching("depth_first_solve") /\ call.deque # <<>>
    /\ str(call.nodes[Last(call.deque)].puzzle) \notin call.visited
    /\ call.nodes[Last(call.deque)].puzzle \in call.puzzle.is_solved
    /\ call' = dfs_turn
    /\ UNCHANGED simulation_vars

\* node = stack.pop(), its puzzle new, unsolved and fail_fast.
dfs_fail_fast ==
    /\ Searching("depth_first_solve") /\ call.deque # <<>>
    /\ str(call.nodes[Last(call.deque)].puzzle) \notin call.visited
    /\ call.nodes[Last(call.deque)].puzzle \notin call.puzzle.is_solved
    /\ call.nodes[Last(call.deque)].puzzle \in call.puzzle.fail_fast
    /\ call' = dfs_turn
    /\ UNCHANGED simulation_vars

\* node = stack.pop(), its puzzle new, unsolved, not fail_fast:
\* stack.extend(exts).
dfs_extend ==
    /\ Searching("depth_first_solve") /\ call.deque # <<>>
    /\ str(call.nodes[Last(call.deque)].puzzle) \notin call.visited
    /\ call.nodes[Last(call.deque)].puzzle \notin call.puzzle.is_solved
    /\ call.nodes[Last(call.deque)].puzzle \notin call.puzzle.fail_fast
    /\ call' = dfs_turn
    /\ UNCHANGED simulation_vars

\* The stack is empty: return None.
dfs_none ==
    /\ Searching("depth_first_solve") /\ call.deque = <<>>
    /\ call' = [call EXCEPT !.pc = "returned", !.ret = NoNode]
    /\ UNCHANGED simulation_vars

DfsNext == dfs_seen \/ dfs_solved \/ dfs_fail_fast \/ dfs_extend \/ dfs_none

DfsSpec == DfsInit /\ [][DfsNext]_vars

\* The while loop is a sequential program: it takes its next turn.
DfsFairSpec == DfsSpec /\ WF_vars(DfsNext)

\* ---- what the searches are to return
\* The configurations reachable from those of S through the extensions of
\* configurations outside the set closed.
RECURSIVE Reachable(_, _, _)
Reachable(P, closed, S) ==
    LET T == S \cup UNION {SeqToSet(P.extensions[c]) : c \in S \ closed}
    IN IF T = S THEN S ELSE Reachable(P, closed, T)

\* From node a single chain of children, each holding an extension of its
\* parent's puzzle, leads to a node holding a solved puzzle.
RECURSIVE ChainToSolved(_, _, _)
ChainToSolved(P, nodes, node) ==
    IF nodes[node].children = <<>>
    THEN nodes[node].puzzle \in P.is_solved
    ELSE /\ Len(nodes[node].children) = 1
         /\ LET child == nodes[node].children[1]
            IN /\ nodes[child].puzzle
                     \in SeqToSet(P.extensions[nodes[node].puzzle])
               /\ nodes[child].parent = node
               /\ ChainToSolved(P, nodes, child)

\* The search has returned the root of a path to a solution.
ReturnedPath ==
    /\ call.ret # NoNode
    /\ call.nodes[call.ret].puzzle = root_config
    /\ call.nodes[call.ret].parent = NoNode
    /\ ChainToSolved(call.puzzle, call.nodes, call.ret)

\* C28: breadth_first_solve returns None exactly when no solved
\* configuration is reachable from the puzzle through extensions, and
\* otherwise the root node, holding the puzzle, of a single chain of
\* children that ends in a solved puzzle, each child holding an extension
\* of its parent's puzzle.
C28_BreadthFirstSolve ==
    (call.fn = "breadth_first_solve" /\ call.pc = "returned") =>
        LET solvable ==
                Reachable(call.puzzle, {}, {root_config})
                    \cap call.puzzle.is_solved # {}
        IN /\ call.ret = NoNode <=> ~solvable
           /\ call.ret # NoNode => ReturnedPath

\* C28 witness: breadth_first_solve has returned a path of three nodes
\* through a fail_fast configuration, from a puzzle whose extensions form
\* a cycle.
C28_Witness ==
    /\ call.fn = "breadth_first_solve" /\ call.pc = "returned"
    /\ call.ret # NoNode
    /\ call.nodes[call.ret].children # <<>>
    /\ call.nodes[call.nodes[call.ret].children[1]].children # <<>>
    /\ call.nodes[call.nodes[call.ret].children[1]].puzzle
          \in call.puzzle.fail_fast
    /\ root_config \in SeqToSet(call.puzzle.extensions[3])

\* A turn of the loop that extends a puzzle or returns a path.
Expands(puzzle) ==
    /\ call.pc = "loop"
    /\ str(puzzle) \notin call.visited
    /\ str(puzzle) \in call'.visited

\* C29: depth_first_solve returns; no configuration is expanded twice; it
\* returns None exactly when no solved configuration is reachable through
\* configurations that are not fail_fast, and otherwise the root node,
\* holding the puzzle, of a single chain of children that ends in a solved
\* puzzle, each child holding an extension of its parent's puzzle.
C29_DepthFirstSolve ==
    /\ <>(call.pc = "returned")
    /\ [][/\ call.visited \subseteq call'.visited
          /\ call.pc = "loop" /\ call.deque # <<>> =>
                \/ Expands(call.nodes[Last(call.deque)].puzzle)
                \/ /\ str(call.nodes[Last(call.deque)].puzzle)
                         \in call.visited
                   /\ call'.visited = call.visited
                   /\ call'.nodes = call.nodes
                   /\ call'.deque = Front(call.deque)]_vars
    /\ [](call.pc = "returned" =>
            LET solvable ==
                    Reachable(call.puzzle, call.puzzle.fail_fast,
                              {root_config})
                        \cap call.puzzle.is_solved # {}
            IN /\ call.ret = NoNode <=> ~solvable
               /\ call.ret # NoNode => ReturnedPath)

\* C29 witness: depth_first_solve has returned None from a puzzle whose
\* extensions form a cycle and whose only solved configuration lies behind
\* a fail_fast one.
C29_Witness ==
    /\ call.fn = "depth_first_solve" /\ call.pc = "returned"
    /\ call.ret = NoNode
    /\ call.puzzle.is_solved = {3}
    /\ call.puzzle.fail_fast = {2}
    /\ call.puzzle.extensions = <<<<2>>, <<1, 3>>, <<>>>>
    /\ call.visited = {str(1), str(2)}

\* The number of links from node down its chain of children.
RECURSIVE ChainLength(_, _)
ChainLength(nodes, node) ==
    IF nodes[node].children = <<>> THEN 0
    ELSE 1 + ChainLength(nodes, nodes[node].children[1])

\* The configurations that k extensions lead to from those of S.
RECURSIVE Within(_, _, _)
Within(P, S, k) ==
    IF k = 0 THEN S
    ELSE Within(P, S \cup UNION {SeqToSet(P.extensions[c]) : c \in S}, k - 1)

\* C36: the path breadth_first_solve returns is a shortest one: no solved
\* configuration is reached from the puzzle through fewer extensions than
\* the returned chain has links.
C36_BreadthFirstShortest ==
    (call.fn = "breadth_first_solve" /\ call.pc = "returned"
        /\ call.ret # NoNode) =>
        \A k \in 0 .. ChainLength(call.nodes, call.ret) - 1 :
            Within(call.puzzle, {root_config}, k) \cap call.puzzle.is_solved
                = {}

\* C36 witness: breadth_first_solve has returned a chain of one link to a
\* solved configuration that is also two extensions away, through the
\* extension listed first.
C36_Witness ==
    /\ call.fn = "breadth_first_solve" /\ call.pc = "returned"
    /\ call.ret # NoNode
    /\ ChainLength(call.nodes, call.ret) = 1
    /\ call.puzzle.is_solved = {3}
    /\ call.puzzle.extensions[1] = <<2, 3>>
    /\ call.puzzle.extensions[2] = <<3>>

\* ===================================================================
\* GridPegSolitairePuzzle (Assignment 2, grid_peg_solitaire_puzzle.py)
\* ===================================================================
\* "#" for unused, "*" for peg, "." for empty.
Markers == {"*", ".", "#"}

GridPegSolitairePuzzle(marker, marker_set) ==
    [marker |-> marker, marker_set |-> marker_set]

\* list_as_grid of GridPegSolitairePuzzle.extensions: rows of m items
\* each, with self's marker_set.
peg_list_as_grid(self, grid_list) ==
    LET m == Len(self.marker[1])
    IN GridPegSolitairePuzzle(
           [r \in 1 .. (Len(grid_list) \div m) |->
               [c \in 1 .. m |-> grid_list[(r - 1) * m + c]]],
           self.marker_set)

\* row_index and column_index of the empty space at flat position i.
peg_row_index(self, i) == i \div Len(self.marker)
peg_column_index(self, i) == i % Len(self.marker[1])

\* The three assignments of a move, in order: list_copy[index] = '*',
\* list_copy[index + step] = '.', list_copy[index + 2 * step] = '.'.
Moved(list, i, step) ==
    LET first == [list EXCEPT ![i + 1] = "*"]
        second == [first EXCEPT ![ListIndex(list, i + step) + 1] = "."]
    IN [second EXCEPT ![ListIndex(list, i + 2 * step) + 1] = "."]

\* One if of the for loop at the empty space i: inside is its test that
\* two spaces away lies within the grid, step the distance in the flat
\* list to the next space that way. The test of the two pegs raises
\* IndexError when it reads off the list.
TestRaises(list, i, step, inside) ==
    /\ inside
    /\ IF IndexRaises(list, i + 2 * step) THEN TRUE
       ELSE /\ list[ListIndex(list, i + 2 * step) + 1] = "*"
            /\ IndexRaises(list, i + step)

Move(self, list, i, step, inside) ==
    IF /\ inside
       /\ list[ListIndex(list, i + 2 * step) + 1] = "*"
       /\ list[ListIndex(list, i + step) + 1] = "*"
    THEN <<peg_list_as_grid(self, Moved(list, i, step))>>
    ELSE <<>>

LeftOrRight(self, i, j) ==
    /\ 0 <= peg_column_index(self, i) + 2 * j
    /\ peg_column_index(self, i) + 2 * j < Len(self.marker[1])

AboveOrBelow(self, i, j) ==
    /\ 0 <= peg_row_index(self, i) + 2 * j
    /\ peg_row_index(self, i) + 2 * j < Len(self.marker)

\* for j in range(-1, 2, 2), at the empty space i.
MovesInto(self, list, i) ==
    LET m == Len(self.marker[1])
    IN Move(self, list, i, -1, LeftOrRight(self, i, -1))
          \o Move(self, list, i, 0 - m, AboveOrBelow(self, i, -1))
          \o Move(self, list, i, 1, LeftOrRight(self, i, 1))
          \o Move(self, list, i, m, AboveOrBelow(self, i, 1))

\* for i in range(len(grid_list)), from i on.
RECURSIVE legal_extensions(_, _, _)
legal_extensions(self, list, i) ==
    IF i >= Len(list) THEN <<>>
    ELSE (IF list[i + 1] = "." THEN MovesInto(self, list, i) ELSE <<>>)
            \o legal_extensions(self, list, i + 1)

\* The list GridPegSolitairePuzzle.extensions returns.
peg_extensions(self) ==
    legal_extensions(self, grid_as_list(self.marker), 0)

\* GridPegSolitairePuzzle.extensions raises IndexError.
peg_extensions_raises(self) ==
    LET list == grid_as_list(self.marker)
        m == Len(self.marker[1])
    IN \E i \in 0 .. Len(list) - 1 :
          /\ list[i + 1] = "."
          /\ \E j \in {-1, 1} :
                \/ TestRaises(list, i, j, LeftOrRight(self, i, j))
                \/ TestRaises(list, i, j * m, AboveOrBelow(self, i, j))

\* peg_count of is_solved.
peg_count(marker) ==
    Cardinality({k \in 1 .. Len(grid_as_list(marker)) :
                    grid_as_list(marker)[k] = "*"})

\* GridPegSolitairePuzzle(marker, {"*", ".", "#"}) on any grid of n rows
\* and m columns, of MaxCells cells at most.
PegInit ==
    /\ SimulationInit
    /\ \E n \in 1 .. MaxRows, m \in 1 .. MaxColumns :
          /\ n * m <= MaxCells
          /\ \E marker \in [1 .. n -> [1 .. m -> Markers]] :
                call = [fn |-> "__init__",
                        self |-> GridPegSolitairePuzzle(marker, Markers),
                        raised |-> FALSE, ret |-> None]

\* self.extensions() returns.
peg_call_extensions ==
    /\ call.fn = "__init__"
    /\ ~peg_extensions_raises(call.self)
    /\ call' = [call EXCEPT !.fn = "extensions",
                            !.ret = peg_extensions(call.self)]
    /\ UNCHANGED simulation_vars

\* self.extensions() raises IndexError.
peg_call_extensions_raises ==
    /\ call.fn = "__init__"
    /\ peg_extensions_raises(call.self)
    /\ call' = [call EXCEPT !.fn = "extensions", !.raised = TRUE]
    /\ UNCHANGED simulation_vars

\* self.is_solved()
peg_call_is_solved ==
    /\ call.fn = "__init__"
    /\ call' = [call EXCEPT !.fn = "is_solved",
                            !.ret = (peg_count(call.self.marker) = 1)]
    /\ UNCHANGED simulation_vars

PegNext ==
    \/ peg_call_extensions
    \/ peg_call_extensions_raises
    \/ peg_call_is_solved

PegSpec == PegInit /\ [][PegNext]_vars

\* The four directions of a jump, as row and column offsets.
Directions == {<<0, -1>>, <<0, 1>>, <<-1, 0>>, <<1, 0>>}

Cells(grid) == (DOMAIN grid) \X (DOMAIN grid[1])

\* The jumps the grid allows: an empty cell p and a direction d with the
\* next two cells that way inside the grid and holding pegs.
Jumps(grid) ==
    {pd \in Cells(grid) \X Directions :
        LET p == pd[1]
            d == pd[2]
            over == <<p[1] + d[1], p[2] + d[2]>>
            from == <<p[1] + 2 * d[1], p[2] + 2 * d[2]>>
        IN /\ grid[p[1]][p[2]] = "."
           /\ over \in Cells(grid) /\ from \in Cells(grid)
           /\ grid[over[1]][over[2]] = "*"
           /\ grid[from[1]][from[2]] = "*"}

\* The grid after the jump pd: the empty cell gets the peg, the two
\* cells become empty.
AfterJump(grid, pd) ==
    LET p == pd[1]
        d == pd[2]
    IN [grid EXCEPT ![p[1]][p[2]] = "*",
                    ![p[1] + d[1]][p[2] + d[2]] = ".",
                    ![p[1] + 2 * d[1]][p[2] + 2 * d[2]] = "."]

\* C31: on every rectangular grid, rows and columns equal in number or
\* not, extensions returns exactly the configurations one jump away; each
\* has one peg fewer than self and the same '#' cells.
C31_ExtensionsAreSingleJumps ==
    call.fn = "extensions" =>
        LET grid == call.self.marker
        IN /\ ~call.raised
           /\ {e.marker : e \in SeqToSet(call.ret)}
                 = {AfterJump(grid, pd) : pd \in Jumps(grid)}
           /\ \A e \in SeqToSet(call.ret) :
                 /\ peg_count(e.marker) = peg_count(grid) - 1
                 /\ \A p \in Cells(grid) :
                       grid[p[1]][p[2]] = "#" <=> e.marker[p[1]][p[2]] = "#"

====
